---- MODULE Spec2Model ----
(***************************************************************************)
(* Model of the OHTTP gateway resource (alexander-chervony/                *)
(* app-relay-gateway-go).                                                  *)
(*                                                                         *)
(* src/gateway.go      gatewayResource with httpError, gatewayHandler,     *)
(*                     marshalHandler and configHandler; the handler of a  *)
(*                     path is an EncapsulationHandler.                    *)
(* src/unnamed/part_000 the earlier gatewayResource whose gatewayHandler   *)
(*                     parses, checks the key, decapsulates and calls a    *)
(*                     ContentHandler itself (names suffixed _part000).    *)
(*                                                                         *)
(* A handler is a function of the receiver s, the request r and the        *)
(* outcomes env of the collaborators it calls; its value is the exchange:  *)
(* the final state of the http.ResponseWriter, the metric events fired,    *)
(* the lines logged, the steps taken and the state of the request body.    *)
(*                                                                         *)
(* Spec        serves the requests of a connection one after the other,    *)
(*             each handler in one step.                                   *)
(* SpecConfig  runs configHandler on concurrent goroutines step by step,   *)
(*             on the one source of math/rand.                             *)
(* SpecContext runs gatewayHandler of part_000 on concurrent goroutines    *)
(*             step by step, each with the context it decapsulated.        *)
(***************************************************************************)
EXTENDS Naturals, Sequences, FiniteSets, TLC

VARIABLES
    verbose,                \* gatewayResource.verbose
    debug,                  \* gatewayResource.debug
    keyID,                  \* gatewayResource.keyID
    encapsulationHandlers,  \* gatewayResource.encapsulationHandlers (handlers in part_000)
    allowedOrigins,         \* gatewayResource.allowedOrigins of part_000
    last,                   \* the exchange just completed on the connection ("none": idle)
    twin,                   \* the same request served by a receiver whose verbose flag is flipped
    rng,                    \* the process-wide source of math/rand
    tasks,                  \* the goroutines serving requests concurrently, each at its position
    contexts                \* the ohttp request context made by the current request of each goroutine

vars == <<verbose, debug, keyID, encapsulationHandlers, allowedOrigins, last, twin,
          rng, tasks, contexts>>

----------------------------------------------------------------------------
(* Bounds of the model. *)

\* key identifiers and body bytes range over 0..MaxKeyID (uint8 in the code)
MaxKeyID == 1
\* request bodies are byte strings of at most MaxBodyLen bytes
MaxBodyLen == 2

----------------------------------------------------------------------------
(* Constants of the program. *)

ohttpRequestContentType == "message/ohttp-req"
ohttpResponseContentType == "message/ohttp-res"
twelveHours == 12 * 3600
twentyFourHours == 24 * 3600

metricsEventMarshalRequest == "marshal_request"
metricsEventGatewayRequest == "gateway_request"
metricsResultInvalidMethod == "invalid_method"
metricsResultInvalidContentType == "invalid_content_type"
metricsResultInvalidContent == "invalid_content"
\* declared with the EncapsulationHandler, outside the files at hand
metricsResultRequested == "requested"
metricsResultSuccess == "success"

MethodPost == "POST"
StatusOK == 200
StatusBadRequest == 400
StatusUnauthorized == 401
StatusForbidden == 403
StatusInternalServerError == 500

\* http.StatusText
StatusText(status) ==
    CASE status = StatusOK -> "OK"
      [] status = StatusBadRequest -> "Bad Request"
      [] status = StatusUnauthorized -> "Unauthorized"
      [] status = StatusForbidden -> "Forbidden"
      [] status = StatusInternalServerError -> "Internal Server Error"
      [] OTHER -> ""

\* the error values the handlers compare against, and the nil error
NilError == "nil"
ConfigMismatchError == "ConfigMismatchError"
GatewayTargetForbiddenError == "GatewayTargetForbiddenError"
TargetForbiddenError == "Target forbidden"

----------------------------------------------------------------------------
(* The inputs: requests and the outcomes of the collaborators. *)

Methods == {MethodPost, "GET"}
\* "" is an absent Content-Type header
ContentTypes == {ohttpRequestContentType, ohttpResponseContentType, ""}
Paths == {"/gateway", "/unknown"}
Origins == {"a.example", "b.example"}
Byte == 0..MaxKeyID

BoundedSeq(S, n) == UNION {[1..k -> S] : k \in 0..n}

\* r.Body: err is the failure of the read, bytes what a successful read returns
Bodies ==
    {[err |-> TRUE, bytes |-> <<>>]}
        \cup {[err |-> FALSE, bytes |-> b] : b \in BoundedSeq(Byte, MaxBodyLen)}

Requests == [Method : Methods, ContentType : ContentTypes, Path : Paths, Body : Bodies]

\* What the collaborators answer: decapOk (Gateway.DecapsulateRequest), origin
\* (the target the plaintext names), targetOk (the target logic), encapOk
\* (EncapsulateResponse), constructOk (construction of a request in marshal
\* mode), configOk (Gateway.Config) and intn (rand.Intn(twentyFourHours)).
EnvDefault ==
    [decapOk |-> TRUE, origin |-> "a.example", targetOk |-> TRUE, encapOk |-> TRUE,
     constructOk |-> TRUE, configOk |-> TRUE, intn |-> 0]

\* outcomes of one dispatch: a later outcome is drawn only when it is asked for
DispatchEnvs ==
    {[EnvDefault EXCEPT !.decapOk = FALSE]}
        \cup {[EnvDefault EXCEPT !.origin = o, !.targetOk = FALSE] : o \in Origins}
        \cup {[EnvDefault EXCEPT !.origin = o, !.encapOk = e] : o \in Origins, e \in BOOLEAN}

MarshalEnvs == {[EnvDefault EXCEPT !.constructOk = c] : c \in BOOLEAN}

IntnSamples == {0, 1, twentyFourHours - 1}
ConfigEnvs ==
    {[EnvDefault EXCEPT !.configOk = FALSE]}
        \cup {[EnvDefault EXCEPT !.intn = n] : n \in IntnSamples}

----------------------------------------------------------------------------
(* net/http: the ResponseWriter. header is the header map, sent the headers *)
(* that went out with the status line, body the chunks written.            *)

NewResponseWriter ==
    [wroteHeader |-> FALSE, status |-> 0, header |-> <<>>, sent |-> <<>>,
     body |-> <<>>, superfluous |-> 0]

HeaderSet(w, k, v) == [w EXCEPT !.header = (k :> v) @@ @]

HeaderDel(w, k) ==
    [w EXCEPT !.header = [h \in (DOMAIN @) \ {k} |-> @[h]]]

\* the first WriteHeader sends status and headers, a later one is dropped
WriteHeader(w, status) ==
    IF w.wroteHeader
    THEN [w EXCEPT !.superfluous = @ + 1]
    ELSE [w EXCEPT !.wroteHeader = TRUE, !.status = status, !.sent = w.header]

\* Write sends 200 first when no status has been written
Write(w, chunk) ==
    LET w1 == IF w.wroteHeader THEN w ELSE WriteHeader(w, StatusOK)
    IN  [w1 EXCEPT !.body = Append(@, chunk)]

TextLine(t) == [kind |-> "line", text |-> t]
Text(t) == [kind |-> "text", text |-> t]
Bytes(b) == [kind |-> "bytes", bytes |-> b]

\* http.Error: plain-text headers, the status, then the message as one line
HttpError(w, error, code) ==
    LET w1 == HeaderDel(w, "Content-Length")
        w2 == HeaderSet(w1, "Content-Type", "text/plain; charset=utf-8")
        w3 == HeaderSet(w2, "X-Content-Type-Options", "nosniff")
    IN  Write(WriteHeader(w3, code), TextLine(error))

----------------------------------------------------------------------------
(* The exchange: what one run of a handler has done so far. *)

NoHandled ==
    [called |-> FALSE, err |-> NilError, resp |-> [responseNonce |-> <<>>, ct |-> <<>>],
     steps |-> <<>>, metric |-> ""]

NewExchange(op, s, r) ==
    [op |-> op, s |-> s, r |-> r, env |-> EnvDefault, w |-> NewResponseWriter,
     fired |-> <<>>, log |-> <<>>, trace |-> <<>>,
     bodyRead |-> FALSE, deferClose |-> FALSE, bodyClosed |-> FALSE,
     unmarshalCalls |-> 0, handleCalls |-> 0, marshalCalls |-> 0,
     ctxCreated |-> 0, ctxConsumed |-> 0, maxAge |-> 0, handled |-> NoHandled,
     handleArg |-> <<>>, returned |-> FALSE]

\* log.Println, log.Printf
Log(x, line) == [x EXCEPT !.log = Append(@, line)]
LogIf(cond, x, line) == IF cond THEN Log(x, line) ELSE x

\* Metrics.Fire on the metrics object of a category
Fire(x, category, result) ==
    [x EXCEPT !.fired = Append(@, [category |-> category, result |-> result])]

\* the position of the run: the checks and steps entered, in order
Visit(x, step) == [x EXCEPT !.trace = Append(@, step)]

\* ioutil.ReadAll(r.Body)
ReadAll(x) == [x EXCEPT !.bodyRead = TRUE]

\* defer r.Body.Close()
DeferClose(x) == [x EXCEPT !.deferClose = TRUE]

\* the return of the handler runs the deferred Close
Return(x) == [x EXCEPT !.bodyClosed = @ \/ x.deferClose, !.returned = TRUE]

\* hex.EncodeToString
HexDigits == <<"0", "1", "2", "3", "4", "5", "6", "7", "8", "9", "a", "b", "c", "d", "e", "f">>
RECURSIVE Hex(_)
Hex(b) ==
    IF b = <<>> THEN ""
    ELSE HexDigits[(Head(b) \div 16) + 1] \o HexDigits[(Head(b) % 16) + 1] \o Hex(Tail(b))

----------------------------------------------------------------------------
(* The collaborators: the ohttp library and the handler of a path. *)

\* ohttp.EncapsulatedRequest{}
EmptyEncapsulatedRequest == [KeyID |-> 0, suite |-> <<>>, ct |-> <<>>]
EmptyEncapsulatedResponse == [responseNonce |-> <<>>, ct |-> <<>>]

\* the key identifier and the fixed-length rest of the envelope's header
MinEnvelopeLen == 2

\* ohttp.UnmarshalEncapsulatedRequest: the key identifier, the header, the ciphertext
UnmarshalEncapsulatedRequest(b) ==
    IF Len(b) < MinEnvelopeLen
    THEN [req |-> EmptyEncapsulatedRequest, err |-> "unexpected EOF"]
    ELSE [req |-> [KeyID |-> b[1], suite |-> SubSeq(b, 2, MinEnvelopeLen),
                   ct |-> SubSeq(b, MinEnvelopeLen + 1, Len(b))],
          err |-> NilError]

\* EncapsulatedResponse.Marshal
Marshal(resp) == resp.responseNonce \o resp.ct

\* Gateway.DecapsulateRequest: the plaintext and the context of this request
DecapsulateRequest(s, req, env) ==
    IF req.KeyID # s.keyID \/ ~env.decapOk
    THEN [binaryRequest |-> <<>>, context |-> [keyID |-> 0, enc |-> <<>>],
          err |-> "decapsulation failed"]
    ELSE [binaryRequest |-> req.ct, context |-> [keyID |-> req.KeyID, enc |-> req.suite],
          err |-> NilError]

\* DecapsulateRequestContext.EncapsulateResponse
EncapsulateResponse(context, binaryResponse, env) ==
    IF ~env.encapOk
    THEN [resp |-> EmptyEncapsulatedResponse, err |-> "encapsulation failed"]
    ELSE [resp |-> [responseNonce |-> context.enc, ct |-> binaryResponse], err |-> NilError]

\* the target logic: the answer of the origin to the plaintext request
TargetResponse(origin, binaryRequest) == binaryRequest \o <<IF origin = "a.example" THEN 0 ELSE 1>>

checkAllowList_emptyAllowsAll(s, targetOrigin) ==
    IF s.allowedOrigins.keys # {}
    THEN targetOrigin \in s.allowedOrigins.keys
    ELSE TRUE

\* gatewayResource.checkAllowList
checkAllowList(s, targetOrigin) ==
    IF ~s.allowedOrigins.nil
    THEN targetOrigin \in s.allowedOrigins.keys
    ELSE TRUE

\* EncapsulationHandler.Handle, by its contract: the empty request asks for a
\* constructed message; otherwise key check, decapsulation, allow-list,
\* target logic, encapsulation, and one terminal metric.
Handle(s, r, req, env) ==
    LET res(err, resp, steps, metric) ==
            [called |-> TRUE, err |-> err, resp |-> resp, steps |-> steps, metric |-> metric]
        dec == DecapsulateRequest(s, req, env)
        enc == EncapsulateResponse(dec.context, TargetResponse(env.origin, dec.binaryRequest), env)
    IN  IF req = EmptyEncapsulatedRequest
        THEN IF env.constructOk
             THEN res(NilError, [responseNonce |-> <<s.keyID>>, ct |-> <<>>], <<"construct">>,
                      metricsResultSuccess)
             ELSE res("construction failed", EmptyEncapsulatedResponse, <<"construct">>,
                      "encapsulation_failed")
        ELSE IF req.KeyID # s.keyID
        THEN res(ConfigMismatchError, EmptyEncapsulatedResponse, <<"key">>,
                 "configuration_mismatch")
        ELSE IF dec.err # NilError
        THEN res(dec.err, EmptyEncapsulatedResponse, <<"key", "decapsulate">>,
                 "decapsulation_failed")
        ELSE IF ~checkAllowList(s, env.origin)
        THEN res(GatewayTargetForbiddenError, EmptyEncapsulatedResponse,
                 <<"key", "decapsulate", "allow_list">>, "target_forbidden")
        ELSE IF ~env.targetOk
        THEN res("target failed", EmptyEncapsulatedResponse,
                 <<"key", "decapsulate", "allow_list", "target">>, "content_handler_failed")
        ELSE IF enc.err # NilError
        THEN res(enc.err, EmptyEncapsulatedResponse,
                 <<"key", "decapsulate", "allow_list", "target", "encapsulate">>,
                 "encapsulation_failed")
        ELSE res(NilError, enc.resp,
                 <<"key", "decapsulate", "allow_list", "target", "encapsulate">>,
                 metricsResultSuccess)

----------------------------------------------------------------------------
(* src/gateway.go: httpError and gatewayHandler. gatewayHandler is the    *)
(* chain checkMethod, checkContentType, resolveHandler, readBody,         *)
(* parseBody, dispatch; each either answers and returns or goes on.       *)

httpError_debugFromVerbose(s, x, status, debugMessage) ==
    LET x1 == LogIf(s.verbose, x, debugMessage)
    IN  IF s.verbose
        THEN [x1 EXCEPT !.w = Write(HttpError(@, debugMessage, status), Text(debugMessage))]
        ELSE [x1 EXCEPT !.w = HttpError(@, StatusText(status), status)]

\* gatewayResource.httpError
httpError(s, x, status, debugMessage) ==
    LET x1 == LogIf(s.verbose, x, debugMessage)
    IN  IF s.debug
        THEN [x1 EXCEPT !.w = Write(HttpError(@, debugMessage, status), Text(debugMessage))]
        ELSE [x1 EXCEPT !.w = HttpError(@, StatusText(status), status)]

sendResponse_noConnection(x, encapsulatedResp) ==
    LET packedResponse == Marshal(encapsulatedResp)
        w1 == HeaderSet(x.w, "Content-Type", ohttpResponseContentType)
    IN  [Visit(x, "respond") EXCEPT !.marshalCalls = @ + 1,
                                    !.w = Write(w1, Bytes(packedResponse))]

\* gatewayHandler: the response on success
sendResponse(x, encapsulatedResp) ==
    LET packedResponse == Marshal(encapsulatedResp)
        w1 == HeaderSet(x.w, "Content-Type", ohttpResponseContentType)
        w2 == HeaderSet(w1, "Connection", "Keep-Alive")
    IN  [Visit(x, "respond") EXCEPT !.marshalCalls = @ + 1,
                                    !.w = Write(w2, Bytes(packedResponse))]

handlerErrorStatus_mismatchIsBadRequest(err) ==
    IF err = GatewayTargetForbiddenError THEN StatusForbidden ELSE StatusBadRequest

\* gatewayHandler: the status of a handler error
handlerErrorStatus(err) ==
    IF err = ConfigMismatchError THEN StatusUnauthorized
    ELSE IF err = GatewayTargetForbiddenError THEN StatusForbidden
    ELSE StatusBadRequest

\* gatewayHandler: the answer to a handler error
handlerFailed(s, x, err) ==
    LET x1 == LogIf(s.verbose, x, err)
        status == handlerErrorStatus(err)
    IN  [x1 EXCEPT !.w = HttpError(@, StatusText(status), status)]

\* encapHandler.Handle(r, encapsulatedReq, metrics): the handler fires its
\* terminal metric on the metrics object of this request
callHandle(s, r, env, x, encapHandler, encapsulatedReq, category) ==
    LET h == Handle(s, r, encapsulatedReq, env)
    IN  [Fire(Visit(x, "dispatch"), category, h.metric)
            EXCEPT !.env = env, !.handleCalls = @ + 1, !.handled = h,
                   !.handleArg = Append(@, encapsulatedReq)]

dispatch_noReturnOnError(s, r, env, x, encapHandler, encapsulatedReq) ==
    LET x1 == callHandle(s, r, env, x, encapHandler, encapsulatedReq, metricsEventGatewayRequest)
    IN  IF x1.handled.err # NilError
        THEN sendResponse(handlerFailed(s, x1, x1.handled.err), x1.handled.resp)
        ELSE sendResponse(x1, x1.handled.resp)

\* gatewayHandler: the call of the handler and what follows it
dispatch(s, r, env, x, encapHandler, encapsulatedReq) ==
    LET x1 == callHandle(s, r, env, x, encapHandler, encapsulatedReq, metricsEventGatewayRequest)
    IN  IF x1.handled.err # NilError
        THEN handlerFailed(s, x1, x1.handled.err)
        ELSE sendResponse(x1, x1.handled.resp)

parseBody_noMetric(s, r, env, x, encapHandler, encryptedMessageBytes) ==
    LET x1 == LogIf(s.verbose, x, "Request body: " \o Hex(encryptedMessageBytes))
        x2 == [Visit(x1, "parse") EXCEPT !.unmarshalCalls = @ + 1]
        u == UnmarshalEncapsulatedRequest(encryptedMessageBytes)
    IN  IF u.err # NilError
        THEN httpError(s, x2, StatusBadRequest, "Reading request body failed")
        ELSE dispatch(s, r, env, x2, encapHandler, u.req)

\* gatewayHandler: ohttp.UnmarshalEncapsulatedRequest of the bytes read
parseBody(s, r, env, x, encapHandler, encryptedMessageBytes) ==
    LET x1 == LogIf(s.verbose, x, "Request body: " \o Hex(encryptedMessageBytes))
        x2 == [Visit(x1, "parse") EXCEPT !.unmarshalCalls = @ + 1]
        u == UnmarshalEncapsulatedRequest(encryptedMessageBytes)
    IN  IF u.err # NilError
        THEN httpError(s, Fire(x2, metricsEventGatewayRequest, metricsResultInvalidContent),
                       StatusBadRequest, "Reading request body failed")
        ELSE dispatch(s, r, env, x2, encapHandler, u.req)

readBody_noDefer(s, r, env, x, encapHandler) ==
    LET x1 == ReadAll(Visit(x, "read"))
    IN  IF r.Body.err
        THEN httpError(s, Fire(x1, metricsEventGatewayRequest, metricsResultInvalidContent),
                       StatusBadRequest, "Reading request body failed: " \o "unexpected EOF")
        ELSE parseBody(s, r, env, x1, encapHandler, r.Body.bytes)

\* gatewayHandler: defer r.Body.Close() and ioutil.ReadAll(r.Body)
readBody(s, r, env, x, encapHandler) ==
    LET x1 == ReadAll(DeferClose(Visit(x, "read")))
    IN  IF r.Body.err
        THEN httpError(s, Fire(x1, metricsEventGatewayRequest, metricsResultInvalidContent),
                       StatusBadRequest, "Reading request body failed: " \o "unexpected EOF")
        ELSE parseBody(s, r, env, x1, encapHandler, r.Body.bytes)

resolveHandler_afterRead(s, r, env, x) ==
    LET x1 == ReadAll(DeferClose(Visit(x, "read")))
        x2 == Visit(x1, "lookup")
    IN  IF r.Body.err
        THEN httpError(s, Fire(x1, metricsEventGatewayRequest, metricsResultInvalidContent),
                       StatusBadRequest, "Reading request body failed: " \o "unexpected EOF")
        ELSE IF r.Path \notin DOMAIN s.encapsulationHandlers
        THEN httpError(s, x2, StatusBadRequest, "Unknown handler for " \o r.Path)
        ELSE parseBody(s, r, env, x2, s.encapsulationHandlers[r.Path], r.Body.bytes)

resolveHandler_registersPath(s, r, env, x) ==
    LET x1 == Visit(x, "lookup")
    IN  IF r.Path \notin DOMAIN s.encapsulationHandlers
        THEN [httpError(s, x1, StatusBadRequest, "Unknown handler for " \o r.Path)
                EXCEPT !.s.encapsulationHandlers = (r.Path :> "default") @@ @]
        ELSE readBody(s, r, env, x1, s.encapsulationHandlers[r.Path])

resolveHandler_firesMetric(s, r, env, x) ==
    LET x1 == Visit(x, "lookup")
    IN  IF r.Path \notin DOMAIN s.encapsulationHandlers
        THEN httpError(s, Fire(x1, metricsEventGatewayRequest, metricsResultInvalidContent),
                       StatusBadRequest, "Unknown handler for " \o r.Path)
        ELSE readBody(s, r, env, x1, s.encapsulationHandlers[r.Path])

\* gatewayHandler: the handler registered for the URL path
resolveHandler(s, r, env, x) ==
    LET x1 == Visit(x, "lookup")
    IN  IF r.Path \notin DOMAIN s.encapsulationHandlers
        THEN httpError(s, x1, StatusBadRequest, "Unknown handler for " \o r.Path)
        ELSE readBody(s, r, env, x1, s.encapsulationHandlers[r.Path])

checkContentType_absentPasses(s, r, env, x) ==
    LET x1 == Visit(x, "content_type")
    IN  IF r.ContentType # "" /\ r.ContentType # ohttpRequestContentType
        THEN httpError(s, Fire(x1, metricsEventGatewayRequest, metricsResultInvalidContentType),
                       StatusBadRequest, "Invalid content type: " \o r.ContentType)
        ELSE resolveHandler(s, r, env, x1)

checkContentType_noReturn(s, r, env, x) ==
    LET x1 == Visit(x, "content_type")
    IN  IF r.ContentType # ohttpRequestContentType
        THEN resolveHandler(s, r, env,
                 httpError(s, Fire(x1, metricsEventGatewayRequest, metricsResultInvalidContentType),
                           StatusBadRequest, "Invalid content type: " \o r.ContentType))
        ELSE resolveHandler(s, r, env, x1)

\* gatewayHandler: the Content-Type check
checkContentType(s, r, env, x) ==
    LET x1 == Visit(x, "content_type")
    IN  IF r.ContentType # ohttpRequestContentType
        THEN httpError(s, Fire(x1, metricsEventGatewayRequest, metricsResultInvalidContentType),
                       StatusBadRequest, "Invalid content type: " \o r.ContentType)
        ELSE resolveHandler(s, r, env, x1)

checkMethod_noReturn(s, r, env, x) ==
    LET x1 == Visit(x, "method")
    IN  IF r.Method # MethodPost
        THEN checkContentType(s, r, env,
                 httpError(s, Fire(x1, metricsEventGatewayRequest, metricsResultInvalidMethod),
                           StatusBadRequest, "Invalid method: " \o r.Method))
        ELSE checkContentType(s, r, env, x1)

\* gatewayHandler: the method check
checkMethod(s, r, env, x) ==
    LET x1 == Visit(x, "method")
    IN  IF r.Method # MethodPost
        THEN httpError(s, Fire(x1, metricsEventGatewayRequest, metricsResultInvalidMethod),
                       StatusBadRequest, "Invalid method: " \o r.Method)
        ELSE checkContentType(s, r, env, x1)

\* gatewayResource.gatewayHandler
gatewayHandler(s, r, env) ==
    LET x0 == LogIf(s.verbose, NewExchange("gatewayHandler", s, r),
                    r.Method \o " Handling " \o r.Path)
    IN  Return(checkMethod(s, r, env, x0))

----------------------------------------------------------------------------
(* src/gateway.go: marshalHandler and configHandler. *)

\* marshalHandler: after a successful Handle
marshalRespond(s, x, packedRequest) ==
    LET x1 == httpError(s, x, StatusInternalServerError, "Config unavailable")
        x2 == [x1 EXCEPT !.w = HttpError(@, StatusText(StatusInternalServerError),
                                         StatusInternalServerError)]
        content == Marshal(packedRequest)
        w1 == HeaderSet(x2.w, "Content-Type", ohttpResponseContentType)
        w2 == HeaderSet(w1, "Content-Length", ToString(Len(content)))
        x3 == [Visit(x2, "respond") EXCEPT !.marshalCalls = @ + 1,
                                           !.w = Write(w2, Bytes(content))]
    IN  Fire(x3, metricsEventMarshalRequest, metricsResultSuccess)

\* marshalHandler: the call of the handler with the empty request
marshalDispatch(s, r, env, x, encapHandler) ==
    LET x1 == callHandle(s, r, env, x, encapHandler, EmptyEncapsulatedRequest,
                         metricsEventMarshalRequest)
    IN  IF x1.handled.err # NilError
        THEN httpError(s, x1, StatusBadRequest, "Encapsulation failed: " \o x1.handled.err)
        ELSE marshalRespond(s, x1, x1.handled.resp)

\* gatewayResource.marshalHandler
marshalHandler_forbiddenReturns(s, r, env) ==
    LET x0 == NewExchange("marshalHandler", s, r)
        x1 == IF ~s.debug
              THEN httpError(s, Visit(x0, "debug"), StatusForbidden,
                             "Forbidden. Allowed in debug mode only.")
              ELSE Visit(x0, "debug")
        x2 == LogIf(s.verbose, x1, r.Method \o " Handling " \o r.Path)
        x3 == Fire(x2, metricsEventMarshalRequest, metricsResultRequested)
        x4 == Visit(x3, "method")
        x5 == Visit(x4, "lookup")
    IN  Return(IF ~s.debug THEN x1
               ELSE IF r.Method # MethodPost
               THEN httpError(s, x4, StatusBadRequest, "Invalid method: " \o r.Method)
               ELSE IF r.Path \notin DOMAIN s.encapsulationHandlers
               THEN httpError(s, x5, StatusBadRequest, "Unknown handler for " \o r.Path)
               ELSE marshalDispatch(s, r, env, x5, s.encapsulationHandlers[r.Path]))

marshalHandler(s, r, env) ==
    LET x0 == NewExchange("marshalHandler", s, r)
        x1 == IF ~s.debug
              THEN httpError(s, Visit(x0, "debug"), StatusForbidden,
                             "Forbidden. Allowed in debug mode only.")
              ELSE Visit(x0, "debug")
        x2 == LogIf(s.verbose, x1, r.Method \o " Handling " \o r.Path)
        x3 == Fire(x2, metricsEventMarshalRequest, metricsResultRequested)
        x4 == Visit(x3, "method")
        x5 == Visit(x4, "lookup")
    IN  Return(IF r.Method # MethodPost
               THEN httpError(s, x4, StatusBadRequest, "Invalid method: " \o r.Method)
               ELSE IF r.Path \notin DOMAIN s.encapsulationHandlers
               THEN httpError(s, x5, StatusBadRequest, "Unknown handler for " \o r.Path)
               ELSE marshalDispatch(s, r, env, x5, s.encapsulationHandlers[r.Path]))

\* Gateway.Config(keyID) and KeyConfig.Marshal: the key identifier and the public key
ConfigMarshal(id) == <<id, 32>>

configHandler_from24h(s, r, env) ==
    LET x0 == LogIf(s.verbose, NewExchange("configHandler", s, r),
                    r.Method \o " Handling " \o r.Path)
        x1 == [Visit(x0, "config") EXCEPT !.env = env]
        maxAge == twentyFourHours + env.intn
        w1 == HeaderSet(x1.w, "Cache-Control", "max-age=" \o ToString(maxAge) \o ", private")
    IN  Return(IF ~env.configOk
               THEN [Log(x1, "Config unavailable")
                        EXCEPT !.w = HttpError(@, StatusText(StatusInternalServerError),
                                               StatusInternalServerError)]
               ELSE [Visit(x1, "respond") EXCEPT !.maxAge = maxAge,
                                                 !.w = Write(w1, Bytes(ConfigMarshal(s.keyID)))])

configHandler_logIfVerbose(s, r, env) ==
    LET x0 == LogIf(s.verbose, NewExchange("configHandler", s, r),
                    r.Method \o " Handling " \o r.Path)
        x1 == [Visit(x0, "config") EXCEPT !.env = env]
        maxAge == twelveHours + env.intn
        w1 == HeaderSet(x1.w, "Cache-Control", "max-age=" \o ToString(maxAge) \o ", private")
    IN  Return(IF ~env.configOk
               THEN [LogIf(s.verbose, x1, "Config unavailable")
                        EXCEPT !.w = HttpError(@, StatusText(StatusInternalServerError),
                                               StatusInternalServerError)]
               ELSE [Visit(x1, "respond") EXCEPT !.maxAge = maxAge,
                                                 !.w = Write(w1, Bytes(ConfigMarshal(s.keyID)))])

\* gatewayResource.configHandler
configHandler(s, r, env) ==
    LET x0 == LogIf(s.verbose, NewExchange("configHandler", s, r),
                    r.Method \o " Handling " \o r.Path)
        x1 == [Visit(x0, "config") EXCEPT !.env = env]
        maxAge == twelveHours + env.intn
        w1 == HeaderSet(x1.w, "Cache-Control", "max-age=" \o ToString(maxAge) \o ", private")
    IN  Return(IF ~env.configOk
               THEN [Log(x1, "Config unavailable")
                        EXCEPT !.w = HttpError(@, StatusText(StatusInternalServerError),
                                               StatusInternalServerError)]
               ELSE [Visit(x1, "respond") EXCEPT !.maxAge = maxAge,
                                                 !.w = Write(w1, Bytes(ConfigMarshal(s.keyID)))])

----------------------------------------------------------------------------
(* src/unnamed/part_000: the earlier gatewayHandler. It answers with      *)
(* http.Error and logs every failure itself; there are no metrics.        *)

\* a ContentHandler, by its contract: the filter it is given, s.checkAllowList,
\* decides on the target origin before any target logic runs
ContentHandler(s, r, requestBody, env) ==
    IF ~checkAllowList(s, env.origin)
    THEN [called |-> TRUE, err |-> TargetForbiddenError, resp |-> EmptyEncapsulatedResponse,
          steps |-> <<"allow_list">>, metric |-> "", binaryResponse |-> <<>>]
    ELSE IF ~env.targetOk
    THEN [called |-> TRUE, err |-> "target failed", resp |-> EmptyEncapsulatedResponse,
          steps |-> <<"allow_list", "target">>, metric |-> "", binaryResponse |-> <<>>]
    ELSE [called |-> TRUE, err |-> NilError, resp |-> EmptyEncapsulatedResponse,
          steps |-> <<"allow_list", "target">>, metric |-> "",
          binaryResponse |-> TargetResponse(env.origin, requestBody)]

\* gatewayResource.parseEncapsulatedRequestFromContent: its deferred Close
\* runs when it returns
parseEncapsulatedRequestFromContent(r, x) ==
    LET x1 == Visit(x, "method")
        x2 == ReadAll(Visit(x1, "read"))
        x3 == [Visit(x2, "parse") EXCEPT !.unmarshalCalls = @ + 1]
        u == UnmarshalEncapsulatedRequest(r.Body.bytes)
        closed(y) == [y EXCEPT !.bodyClosed = TRUE]
    IN  IF r.Method # MethodPost
        THEN [x |-> x1, req |-> EmptyEncapsulatedRequest,
              err |-> "Unsupported HTTP method for Oblivious DNS query: " \o r.Method]
        ELSE IF r.Body.err
        THEN [x |-> closed(x2), req |-> EmptyEncapsulatedRequest, err |-> "unexpected EOF"]
        ELSE [x |-> closed(x3), req |-> u.req, err |-> u.err]

\* gatewayHandler of part_000: the failure exits, which log and answer statusText
fail_part000(x, statusText, status) ==
    [Log(x, statusText) EXCEPT !.w = HttpError(@, statusText, status)]

\* gatewayHandler of part_000: EncapsulateResponse and the response
respond_part000(s, r, env, x, context, binaryResponse) ==
    LET e == EncapsulateResponse(context, binaryResponse, env)
        x1 == [Visit(x, "encapsulate") EXCEPT !.ctxConsumed = @ + 1, !.handled.resp = e.resp]
        packedResponse == Marshal(e.resp)
        x2 == [Visit(x1, "respond") EXCEPT !.marshalCalls = @ + 1]
        x3 == LogIf(s.verbose, x2, "Target response: " \o Hex(packedResponse))
    IN  IF e.err # NilError
        THEN fail_part000(x1, "EncapsulateResponse failed: " \o e.err, StatusBadRequest)
        ELSE [x3 EXCEPT !.w = Write(HeaderSet(@, "Content-Type", ohttpResponseContentType),
                                    Bytes(packedResponse))]

\* gatewayHandler of part_000: the call of the content handler
dispatch_part000(s, r, env, x, context, binaryRequest) ==
    LET h == ContentHandler(s, r, binaryRequest, env)
        x1 == [Visit(x, "dispatch") EXCEPT !.handleCalls = @ + 1,
                   !.handled = [f \in DOMAIN NoHandled |-> h[f]]]
    IN  IF h.err # NilError
        THEN IF h.err = TargetForbiddenError
             THEN [Log(x1, "Target forbidden: " \o h.err)
                      EXCEPT !.w = HttpError(@, StatusText(StatusForbidden), StatusForbidden)]
             ELSE fail_part000(x1, "Content handler failed: " \o h.err, StatusBadRequest)
        ELSE respond_part000(s, r, env, x1, context, h.binaryResponse)

\* gatewayHandler of part_000: the handler registered for the URL path
resolveHandler_part000(s, r, env, x, context, binaryRequest) ==
    LET x1 == Visit(x, "lookup")
    IN  IF r.Path \notin DOMAIN s.encapsulationHandlers
        THEN fail_part000(x1, "Unknown handler for " \o r.Path, StatusBadRequest)
        ELSE dispatch_part000(s, r, env, x1, context, binaryRequest)

\* gatewayHandler of part_000: s.gateway.DecapsulateRequest
decapsulate_part000(s, r, env, x, encapsulatedRequest) ==
    LET d == DecapsulateRequest(s, encapsulatedRequest, env)
        x1 == [Visit(x, "decapsulate") EXCEPT !.env = env]
    IN  IF d.err # NilError
        THEN fail_part000(x1, "DecapsulateRequest failed: " \o d.err, StatusBadRequest)
        ELSE resolveHandler_part000(s, r, env, [x1 EXCEPT !.ctxCreated = @ + 1],
                                    d.context, d.binaryRequest)

\* gatewayHandler of part_000: the key identifier of the request
checkKey_part000(s, r, env, x, encapsulatedRequest) ==
    LET x1 == Visit(x, "key")
    IN  IF encapsulatedRequest.KeyID # s.keyID
        THEN [Log(x1, "Invalid request key")
                 EXCEPT !.w = HttpError(@, StatusText(StatusUnauthorized), StatusUnauthorized)]
        ELSE decapsulate_part000(s, r, env, x1, encapsulatedRequest)

\* gatewayHandler of part_000: method, body and envelope
parse_part000(s, r, env, x) ==
    LET p == parseEncapsulatedRequestFromContent(r, x)
    IN  IF p.err # NilError
        THEN fail_part000(p.x, "parseEncapsulatedRequestFromContent failed: " \o p.err,
                          StatusBadRequest)
        ELSE checkKey_part000(s, r, env, p.x, p.req)

\* gatewayResource.gatewayHandler of part_000
gatewayHandler_part000(s, r, env) ==
    LET x0 == LogIf(s.verbose, NewExchange("gatewayHandler_part000", s, r),
                    r.Method \o " Handling " \o r.Path)
        x1 == Visit(x0, "content_type")
    IN  Return(IF r.ContentType # ohttpRequestContentType
               THEN fail_part000(x1, "Invalid content type: " \o r.ContentType, StatusBadRequest)
               ELSE parse_part000(s, r, env, x1))

\* gatewayResource.configHandler of part_000: it logs every request and sets
\* no Cache-Control header
configHandler_part000(s, r, env) ==
    LET x0 == Log(NewExchange("configHandler_part000", s, r), r.Method \o " Handling " \o r.Path)
        x1 == [Visit(x0, "config") EXCEPT !.env = env]
    IN  Return(IF ~env.configOk
               THEN [Log(x1, "Config unavailable")
                        EXCEPT !.w = HttpError(@, StatusText(StatusInternalServerError),
                                               StatusInternalServerError)]
               ELSE [Visit(x1, "respond") EXCEPT !.w = Write(@, Bytes(ConfigMarshal(s.keyID)))])

----------------------------------------------------------------------------
(* math/rand: the source shared by the whole process. configHandler seeds *)
(* it from the clock and draws from it on every publication.              *)

\* time.Now().UnixNano(): readings of the clock
Seeds == {"t1", "t2"}

\* the source before any handler has seeded it
DefaultSource == [seed |-> "default", draws |-> 0]

\* rand.Seed(seed)
RandSeed(seed) == [seed |-> seed, draws |-> 0]

\* rand.Intn(n): the numbers it can return, all in [0, n), and the source after the draw
RandIntn(n) == {v \in IntnSamples : v < n}
RandDrawn(source) == [source EXCEPT !.draws = @ + 1]

----------------------------------------------------------------------------
(* The state machine: the gatewayResource after construction, and one     *)
(* action per handler, serving one request.                               *)

KeyIDs == 0..MaxKeyID
Registries == {[p \in {"/gateway"} |-> "default"]}
AllowLists ==
    {[nil |-> TRUE, keys |-> {}], [nil |-> FALSE, keys |-> {}],
     [nil |-> FALSE, keys |-> {"a.example"}]}

\* the receiver of the handlers
Self ==
    [verbose |-> verbose, debug |-> debug, keyID |-> keyID,
     encapsulationHandlers |-> encapsulationHandlers, allowedOrigins |-> allowedOrigins]

FlipVerbose(s) == [s EXCEPT !.verbose = ~@]

NoRequest == [Method |-> "", ContentType |-> "", Path |-> "", Body |-> [err |-> FALSE, bytes |-> <<>>]]

\* the requests for the key configuration: no content type, no body
ConfigRequests ==
    [Method : Methods, ContentType : {""}, Path : {"/config"},
     Body : {[err |-> FALSE, bytes |-> <<>>]}]

\* the goroutines of the server and what each holds between two steps
Tasks == {"g1", "g2"}
IdleTask == [pc |-> "idle", r |-> NoRequest, env |-> EnvDefault, x |-> NewExchange("none", Self, NoRequest)]
NoContext ==
    [created |-> FALSE, consumed |-> 0, usedBy |-> {}, ownerDone |-> FALSE,
     handlerOk |-> FALSE, status |-> 0]

Init ==
    /\ verbose \in BOOLEAN
    /\ debug \in BOOLEAN
    /\ keyID \in KeyIDs
    /\ encapsulationHandlers \in Registries
    /\ allowedOrigins \in AllowLists
    /\ last = NewExchange("none", Self, NoRequest)
    /\ twin = NewExchange("none", FlipVerbose(Self), NoRequest)
    /\ rng = DefaultSource
    /\ tasks = [t \in Tasks |-> IdleTask]
    /\ contexts = [t \in Tasks |-> NoContext]

\* the handler has returned: x is the exchange, y its twin
Served(x, y) ==
    /\ last' = x
    /\ twin' = y
    /\ verbose' = x.s.verbose
    /\ debug' = x.s.debug
    /\ keyID' = x.s.keyID
    /\ encapsulationHandlers' = x.s.encapsulationHandlers
    /\ allowedOrigins' = x.s.allowedOrigins
    /\ UNCHANGED <<tasks, contexts>>

\* the connection is idle: the server reads the next request from it
Idle == last.op = "none"

GatewayRequest ==
    /\ Idle
    /\ \E r \in Requests, env \in DispatchEnvs :
        Served(gatewayHandler(Self, r, env), gatewayHandler(FlipVerbose(Self), r, env))
    /\ UNCHANGED rng

\* the client has read the response; the connection is kept alive
NextRequest ==
    /\ ~Idle
    /\ last' = NewExchange("none", Self, NoRequest)
    /\ twin' = NewExchange("none", FlipVerbose(Self), NoRequest)
    /\ UNCHANGED <<verbose, debug, keyID, encapsulationHandlers, allowedOrigins,
                   rng, tasks, contexts>>

GatewayRequest_part000 ==
    /\ Idle
    /\ \E r \in Requests, env \in DispatchEnvs :
        Served(gatewayHandler_part000(Self, r, env),
               gatewayHandler_part000(FlipVerbose(Self), r, env))
    /\ UNCHANGED rng

MarshalRequest ==
    /\ Idle
    /\ \E r \in Requests, env \in MarshalEnvs :
        Served(marshalHandler(Self, r, env), marshalHandler(FlipVerbose(Self), r, env))
    /\ UNCHANGED rng

\* a publication that succeeds seeds the source and draws from it in between
ConfigRequest ==
    /\ Idle
    /\ \E r \in ConfigRequests, env \in ConfigEnvs, now \in Seeds :
        /\ env.configOk => env.intn \in RandIntn(twentyFourHours)
        /\ Served(configHandler(Self, r, env), configHandler(FlipVerbose(Self), r, env))
        /\ rng' = IF env.configOk THEN RandDrawn(RandSeed(now)) ELSE rng

ConfigRequest_part000 ==
    /\ Idle
    /\ \E r \in ConfigRequests, ok \in BOOLEAN :
        LET env == [EnvDefault EXCEPT !.configOk = ok]
        IN  Served(configHandler_part000(Self, r, env),
                   configHandler_part000(FlipVerbose(Self), r, env))
    /\ UNCHANGED rng

Next ==
    \/ GatewayRequest
    \/ GatewayRequest_part000
    \/ MarshalRequest
    \/ ConfigRequest
    \/ ConfigRequest_part000
    \/ NextRequest

Spec == Init /\ [][Next]_vars

----------------------------------------------------------------------------
(* Concurrent publications of the key configuration: every goroutine runs *)
(* configHandler step by step, and the steps of different goroutines      *)
(* interleave on the one source of math/rand.                             *)

\* the receiver after the handler of a goroutine has taken a step
TaskServed(x) ==
    /\ verbose' = x.s.verbose
    /\ debug' = x.s.debug
    /\ keyID' = x.s.keyID
    /\ encapsulationHandlers' = x.s.encapsulationHandlers
    /\ allowedOrigins' = x.s.allowedOrigins

\* s.gateway.Config(s.keyID): without a configuration the handler answers at once
ConfigCall(t) ==
    /\ tasks[t].pc = "idle"
    /\ \E r \in ConfigRequests, ok \in BOOLEAN :
        LET env == [EnvDefault EXCEPT !.configOk = ok]
            x == configHandler(Self, r, env)
        IN  /\ tasks' = [tasks EXCEPT ![t] =
                            IF ok THEN [IdleTask EXCEPT !.pc = "seed", !.r = r, !.env = env]
                            ELSE [pc |-> "done", r |-> r, env |-> env, x |-> x]]
            /\ TaskServed(x)
    /\ UNCHANGED <<last, twin, rng, contexts>>

\* rand.Seed(time.Now().UnixNano())
ConfigSeed(t) ==
    /\ tasks[t].pc = "seed"
    /\ \E now \in Seeds : rng' = RandSeed(now)
    /\ tasks' = [tasks EXCEPT ![t].pc = "intn"]
    /\ UNCHANGED <<verbose, debug, keyID, encapsulationHandlers, allowedOrigins,
                   last, twin, contexts>>

\* rand.Intn(twentyFourHours)
ConfigIntn(t) ==
    /\ tasks[t].pc = "intn"
    /\ \E n \in RandIntn(twentyFourHours) :
        tasks' = [tasks EXCEPT ![t].pc = "write", ![t].env.intn = n]
    /\ rng' = RandDrawn(rng)
    /\ UNCHANGED <<verbose, debug, keyID, encapsulationHandlers, allowedOrigins,
                   last, twin, contexts>>

\* the Cache-Control header and w.Write(config.Marshal()); the handler returns
ConfigWrite(t) ==
    /\ tasks[t].pc = "write"
    /\ LET x == configHandler(Self, tasks[t].r, tasks[t].env)
       IN  /\ tasks' = [tasks EXCEPT ![t].pc = "done", ![t].x = x]
           /\ TaskServed(x)
    /\ UNCHANGED <<last, twin, rng, contexts>>

\* the client has read the response; the goroutine serves its next request
ConfigDone(t) ==
    /\ tasks[t].pc = "done"
    /\ tasks' = [tasks EXCEPT ![t] = IdleTask]
    /\ UNCHANGED <<verbose, debug, keyID, encapsulationHandlers, allowedOrigins,
                   last, twin, rng, contexts>>

NextConfig ==
    \E t \in Tasks :
        \/ ConfigCall(t)
        \/ ConfigSeed(t)
        \/ ConfigIntn(t)
        \/ ConfigWrite(t)
        \/ ConfigDone(t)

SpecConfig == Init /\ [][NextConfig]_vars

----------------------------------------------------------------------------
(* Concurrent requests to gatewayHandler of part_000: every goroutine     *)
(* decapsulates, calls the content handler, encapsulates and returns step *)
(* by step. contexts[t] is the context that DecapsulateRequest returned   *)
(* to the current request of goroutine t.                                 *)

\* requests that reach the key check: POST, message/ohttp-req, an envelope that parses
ContextRequests ==
    [Method : {MethodPost}, ContentType : {ohttpRequestContentType}, Path : Paths,
     Body : {[err |-> FALSE, bytes |-> <<k, 0>>] : k \in KeyIDs}]

\* the variable context of the request of goroutine t: local to its call
contextOf_shared(t) ==
    IF \E u \in Tasks \ {t} : contexts[u].created /\ ~contexts[u].ownerDone
    THEN CHOOSE u \in Tasks \ {t} : contexts[u].created /\ ~contexts[u].ownerDone
    ELSE t

contextOf(t) == t

\* the handler has returned on goroutine t with exchange x
ContextReturn(t, x) ==
    /\ tasks' = [tasks EXCEPT ![t] = IdleTask]
    /\ TaskServed(x)

\* what the request that made the context came to: whether its content
\* handler was found and succeeded, and the status it answered
OwnerDone(c, x) ==
    [c EXCEPT !.ownerDone = x.returned,
              !.handlerOk = x.handled.called /\ x.handled.err = NilError,
              !.status = x.w.status]

\* the request ends before a context exists: key mismatch or failed decapsulation
ContextRejected(t) ==
    /\ tasks[t].pc = "idle"
    /\ \E r \in ContextRequests, env \in DispatchEnvs :
        LET x == gatewayHandler_part000(Self, r, env)
        IN  /\ x.ctxCreated = 0
            /\ ContextReturn(t, x)
    /\ contexts' = [contexts EXCEPT ![t] = NoContext]
    /\ UNCHANGED <<last, twin, rng>>

\* binaryRequest, context, err := s.gateway.DecapsulateRequest(encapsulatedRequest)
ContextDecapsulate(t) ==
    /\ tasks[t].pc = "idle"
    /\ \E r \in ContextRequests, env \in DispatchEnvs :
        /\ gatewayHandler_part000(Self, r, env).ctxCreated > 0
        /\ tasks' = [tasks EXCEPT ![t] = [IdleTask EXCEPT !.pc = "decapsulated", !.r = r, !.env = env]]
    /\ contexts' = [contexts EXCEPT ![t] = [NoContext EXCEPT !.created = TRUE]]
    /\ UNCHANGED <<verbose, debug, keyID, encapsulationHandlers, allowedOrigins, last, twin, rng>>

\* the handler lookup and handler(r, binaryRequest, s.checkAllowList): a
\* failure of either ends the request
ContextDispatch(t) ==
    /\ tasks[t].pc = "decapsulated"
    /\ LET x == gatewayHandler_part000(Self, tasks[t].r, tasks[t].env)
       IN  IF x.ctxConsumed = 0
           THEN /\ ContextReturn(t, x)
                /\ contexts' = [contexts EXCEPT ![t] = OwnerDone(@, x)]
           ELSE /\ tasks' = [tasks EXCEPT ![t].pc = "handled"]
                /\ UNCHANGED <<verbose, debug, keyID, encapsulationHandlers, allowedOrigins,
                               contexts>>
    /\ UNCHANGED <<last, twin, rng>>

\* context.EncapsulateResponse(binaryResponse)
ContextEncapsulate(t) ==
    /\ tasks[t].pc = "handled"
    /\ LET x == gatewayHandler_part000(Self, tasks[t].r, tasks[t].env)
           c == contextOf(t)
       IN  contexts' = [contexts EXCEPT ![c].consumed = @ + x.ctxConsumed,
                                        ![c].usedBy = @ \cup {t}]
    /\ tasks' = [tasks EXCEPT ![t].pc = "encapsulated"]
    /\ UNCHANGED <<verbose, debug, keyID, encapsulationHandlers, allowedOrigins, last, twin, rng>>

\* the response, or the report of a failed encapsulation, and the return
ContextRespond(t) ==
    /\ tasks[t].pc = "encapsulated"
    /\ LET x == gatewayHandler_part000(Self, tasks[t].r, tasks[t].env)
       IN  /\ ContextReturn(t, x)
           /\ contexts' = [contexts EXCEPT ![t] = OwnerDone(@, x)]
    /\ UNCHANGED <<last, twin, rng>>

NextContext ==
    \E t \in Tasks :
        \/ ContextRejected(t)
        \/ ContextDecapsulate(t)
        \/ ContextDispatch(t)
        \/ ContextEncapsulate(t)
        \/ ContextRespond(t)

SpecContext == Init /\ [][NextContext]_vars

----------------------------------------------------------------------------
(* What the claims speak of. *)

GatewayRun == last.op = "gatewayHandler" /\ last.returned
Part000Run == last.op = "gatewayHandler_part000" /\ last.returned

\* what the client sees of an exchange
ClientView(x) == [status |-> x.w.status, headers |-> x.w.sent, body |-> x.w.body]

\* the checks of gatewayHandler, each judged on the request alone
MethodOk(r) == r.Method = MethodPost
ContentTypeOk(r) == r.ContentType = ohttpRequestContentType
PathRegistered(r) == r.Path \in DOMAIN encapsulationHandlers
BodyReadable(r) == ~r.Body.err
BodyParses(r) == BodyReadable(r) /\ UnmarshalEncapsulatedRequest(r.Body.bytes).err = NilError

CheckOrder == <<"method", "content_type", "lookup", "read", "parse", "dispatch">>

\* the position in CheckOrder of the first check the request fails; the
\* dispatch when it fails none
FirstFailing(r) ==
    IF ~MethodOk(r) THEN 1
    ELSE IF ~ContentTypeOk(r) THEN 2
    ELSE IF ~PathRegistered(r) THEN 3
    ELSE IF ~BodyReadable(r) THEN 4
    ELSE IF ~BodyParses(r) THEN 5
    ELSE Len(CheckOrder)

GatewayMetric(result) == [category |-> metricsEventGatewayRequest, result |-> result]

\* the metrics a request failing check k fires
FailureMetrics(k) ==
    CASE k = 1 -> <<GatewayMetric(metricsResultInvalidMethod)>>
      [] k = 2 -> <<GatewayMetric(metricsResultInvalidContentType)>>
      [] k = 3 -> <<>>
      [] OTHER -> <<GatewayMetric(metricsResultInvalidContent)>>

\* the request carries a key identifier: the first byte of a readable body
HasKeyID(r) == BodyReadable(r) /\ Len(r.Body.bytes) >= 1
EmbeddedKeyID(r) == r.Body.bytes[1]

\* header tokens compare without regard to case
LowerToken(v) == IF v = "Keep-Alive" THEN "keep-alive" ELSE v

BytesWritten(x) == \E i \in 1..Len(x.w.body) : x.w.body[i].kind = "bytes"

----------------------------------------------------------------------------
(* The claims. *)

\* C1: a gatewayHandler request whose method is not POST, whatever its
\* Content-Type, path and body, is answered 400, makes no Handle call and fires
\* the one metric invalid_method under gateway_request.
C1_InvalidMethod ==
    (GatewayRun /\ last.r.Method # MethodPost) =>
        /\ last.w.status = StatusBadRequest
        /\ last.handleCalls = 0
        /\ last.fired = <<GatewayMetric(metricsResultInvalidMethod)>>

C1_Witness ==
    /\ GatewayRun
    /\ last.r.Method = "GET"
    /\ ContentTypeOk(last.r) /\ PathRegistered(last.r) /\ BodyParses(last.r)
    /\ last.w.status = StatusBadRequest

\* C2: a POST whose Content-Type is not exactly message/ohttp-req is answered
\* 400; its body is neither read nor parsed and no handler is invoked.
C2_InvalidContentType ==
    ((GatewayRun \/ Part000Run) /\ last.r.Method = MethodPost /\ ~ContentTypeOk(last.r)) =>
        /\ last.w.status = StatusBadRequest
        /\ ~last.bodyRead
        /\ last.unmarshalCalls = 0
        /\ last.handleCalls = 0

C2_Witness ==
    /\ GatewayRun
    /\ last.r.Method = MethodPost
    /\ last.r.ContentType = ""
    /\ PathRegistered(last.r) /\ BodyParses(last.r)
    /\ last.w.status = StatusBadRequest
    /\ last.fired = <<GatewayMetric(metricsResultInvalidContentType)>>

\* C3: a POST with the right Content-Type and a registered path whose body
\* cannot be read or parsed is answered 400, fires invalid_content, invokes no
\* handler, and the step leaves keyID and the handler registry as they were.
C3_InvalidContent ==
    [][(/\ last'.op = "gatewayHandler"
        /\ MethodOk(last'.r) /\ ContentTypeOk(last'.r) /\ PathRegistered(last'.r)
        /\ ~BodyParses(last'.r))
       => (/\ last'.w.status = StatusBadRequest
           /\ last'.fired = <<GatewayMetric(metricsResultInvalidContent)>>
           /\ last'.handleCalls = 0
           /\ keyID' = keyID
           /\ encapsulationHandlers' = encapsulationHandlers)]_vars

C3_Witness ==
    /\ GatewayRun
    /\ MethodOk(last.r) /\ ContentTypeOk(last.r) /\ PathRegistered(last.r)
    /\ BodyReadable(last.r) /\ Len(last.r.Body.bytes) = 1
    /\ last.unmarshalCalls = 1
    /\ last.w.status = StatusBadRequest

\* C4 as claimed: a request that reaches the body and embeds a key identifier
\* other than keyID is answered 401, whether or not the body is valid.
C4_Original ==
    ((GatewayRun \/ Part000Run)
        /\ MethodOk(last.r) /\ ContentTypeOk(last.r) /\ PathRegistered(last.r)
        /\ HasKeyID(last.r) /\ EmbeddedKeyID(last.r) # keyID)
    => last.w.status = StatusUnauthorized

\* C4 as amended: a POST with the right Content-Type (and, in gateway.go, a
\* registered path) whose body parses into an EncapsulatedRequest with a key
\* identifier other than keyID is answered 401 whatever its ciphertext, which is
\* not decapsulated; a body too short to parse is answered 400 instead.
C4_KeyMismatch ==
    LET reached ==
            /\ (GatewayRun /\ PathRegistered(last.r)) \/ Part000Run
            /\ MethodOk(last.r)
            /\ ContentTypeOk(last.r)
            /\ HasKeyID(last.r)
            /\ EmbeddedKeyID(last.r) # keyID
    IN  /\ (reached /\ BodyParses(last.r)) =>
            /\ last.w.status = StatusUnauthorized
            /\ last.ctxCreated = 0
            /\ \A i \in 1..Len(last.handled.steps) : last.handled.steps[i] # "decapsulate"
        /\ (reached /\ ~BodyParses(last.r)) => last.w.status = StatusBadRequest

C4_Witness ==
    /\ GatewayRun
    /\ BodyParses(last.r) /\ EmbeddedKeyID(last.r) # keyID
    /\ ~last.env.decapOk
    /\ last.handled.err = ConfigMismatchError
    /\ last.w.status = StatusUnauthorized

\* C5: the handler-failure mapping is total and fixed: a key/config mismatch
\* gives 401, a forbidden target exactly 403 with the body Forbidden, every
\* other handler error 400; no EncapsulatedResponse is serialized or written,
\* and for a forbidden target no target logic has run.
C5_HandlerFailureMapping ==
    LET err == last.handled.err
        forbidden == err \in {GatewayTargetForbiddenError, TargetForbiddenError}
    IN  ((GatewayRun \/ Part000Run) /\ last.handleCalls = 1 /\ err # NilError) =>
            /\ last.w.status =
                   IF GatewayRun /\ err = ConfigMismatchError THEN StatusUnauthorized
                   ELSE IF forbidden THEN StatusForbidden
                   ELSE StatusBadRequest
            /\ forbidden => last.w.body = <<TextLine("Forbidden")>>
            /\ last.marshalCalls = 0
            /\ ~BytesWritten(last)
            /\ last.w.superfluous = 0
            /\ forbidden =>
                   \A i \in 1..Len(last.handled.steps) :
                       last.handled.steps[i] \notin {"target", "encapsulate"}

C5_Witness ==
    /\ GatewayRun
    /\ last.handled.err = GatewayTargetForbiddenError
    /\ last.env.origin = "b.example"
    /\ last.w.status = StatusForbidden

\* C6: when the resolved handler returns success the answer is 200 with
\* Content-Type message/ohttp-res and Connection keep-alive, and its body is
\* the serialization of the EncapsulatedResponse the handler returned.
C6_Success ==
    (GatewayRun /\ last.handleCalls = 1 /\ last.handled.err = NilError) =>
        /\ last.w.status = StatusOK
        /\ {"Content-Type", "Connection"} \subseteq DOMAIN last.w.sent
        /\ last.w.sent["Content-Type"] = ohttpResponseContentType
        /\ LowerToken(last.w.sent["Connection"]) = "keep-alive"
        /\ last.w.body = <<Bytes(Marshal(last.handled.resp))>>

C6_Witness ==
    /\ GatewayRun
    /\ last.handled.called /\ last.handled.err = NilError
    /\ last.w.status = StatusOK
    /\ Len(Marshal(last.handled.resp)) > 0

\* C7: the checks run in the order method, Content-Type, handler lookup, body
\* read, body parse, dispatch; the first check a request fails alone decides
\* status and metric, and nothing after it runs.
C7_CheckOrder ==
    GatewayRun =>
        LET k == FirstFailing(last.r)
            pre == SelectSeq(last.trace, LAMBDA st : st # "respond")
        IN  /\ pre = SubSeq(CheckOrder, 1, k)
            /\ last.bodyRead <=> k >= 4
            /\ last.unmarshalCalls = (IF k >= 5 THEN 1 ELSE 0)
            /\ last.handleCalls = (IF k = Len(CheckOrder) THEN 1 ELSE 0)
            /\ k < Len(CheckOrder) =>
                   /\ last.w.status = StatusBadRequest
                   /\ last.fired = FailureMetrics(k)

C7_Witness ==
    /\ GatewayRun
    /\ MethodOk(last.r) /\ ContentTypeOk(last.r) /\ ~PathRegistered(last.r)
    /\ last.r.Body.err
    /\ ~last.bodyRead
    /\ last.w.status = StatusBadRequest

\* C8 as claimed: on every exit path of gatewayHandler the request body has
\* been closed when the handler returns.
C8_Original ==
    (GatewayRun \/ Part000Run) => last.bodyClosed

\* C8 as amended: gatewayHandler has closed the request body when it returns
\* exactly on the exit paths after the handler lookup succeeded (body-read
\* failure, parse failure, handler failure, success); on the invalid-method,
\* invalid-content-type and unknown-handler exits it returns without closing
\* it. In part_000 the body is closed exactly when the Content-Type and the
\* method passed.
C8_BodyClosedOnceRead ==
    /\ GatewayRun =>
           (last.bodyClosed <=>
                (MethodOk(last.r) /\ ContentTypeOk(last.r) /\ PathRegistered(last.r)))
    /\ Part000Run =>
           (last.bodyClosed <=> (ContentTypeOk(last.r) /\ MethodOk(last.r)))

C8_Witness ==
    /\ GatewayRun
    /\ last.bodyClosed
    /\ last.handled.called /\ last.handled.err # NilError
    /\ last.w.status = StatusBadRequest

\* C9: verbose never shows to the client: the same request, with the same
\* debug flag and the same answers of the collaborators, gets the same status,
\* headers and body from a receiver that differs in verbose alone.
C9_VerboseInvisible ==
    last.op # "none" =>
        /\ twin.op = last.op /\ twin.r = last.r /\ twin.env = last.env
        /\ twin.s = FlipVerbose(last.s)
        /\ ClientView(twin) = ClientView(last)

C9_Witness ==
    /\ GatewayRun
    /\ debug
    /\ last.w.status = StatusBadRequest
    /\ twin.log # last.log
    /\ twin.s.verbose # last.s.verbose

\* the debug message of the failure of check k
DebugMessage(r, k) ==
    CASE k = 1 -> "Invalid method: " \o r.Method
      [] k = 2 -> "Invalid content type: " \o r.ContentType
      [] k = 3 -> "Unknown handler for " \o r.Path
      [] k = 4 -> "Reading request body failed: " \o "unexpected EOF"
      [] OTHER -> "Reading request body failed"

\* C10: the body of an error reported through httpError is the literal debug
\* message when debug is set and the status text alone when it is not.
C10_HttpErrorBody ==
    (GatewayRun /\ FirstFailing(last.r) < Len(CheckOrder)) =>
        last.w.body =
            <<TextLine(IF debug THEN DebugMessage(last.r, FirstFailing(last.r))
                       ELSE StatusText(StatusBadRequest))>>

MarshalRun == last.op = "marshalHandler" /\ last.returned

\* C11: with debug off every marshalHandler request is answered 403 with the
\* text Forbidden, and the handler goes on all the same: a POST to a
\* registered path still makes the one Handle call, with the empty
\* EncapsulatedRequest.
C11_ForbiddenProceeds ==
    (MarshalRun /\ ~debug) =>
        /\ last.w.status = StatusForbidden
        /\ Len(last.w.body) >= 1
        /\ last.w.body[1] = TextLine(StatusText(StatusForbidden))
        /\ (MethodOk(last.r) /\ PathRegistered(last.r)) =>
                /\ last.handleCalls = 1
                /\ last.handleArg = <<EmptyEncapsulatedRequest>>

C11_Witness ==
    /\ MarshalRun
    /\ ~debug
    /\ MethodOk(last.r) /\ PathRegistered(last.r)
    /\ last.handleCalls = 1
    /\ last.handled.err = NilError
    /\ last.w.status = StatusForbidden
    /\ Len(last.w.body) > 1

\* the number of times the metric of this category and result was fired
FiredCount(x, category, result) ==
    Cardinality({i \in 1..Len(x.fired) : x.fired[i] = [category |-> category, result |-> result]})

\* C12: with debug on, when the Handle call marshalHandler makes with the
\* empty EncapsulatedRequest succeeds, the response sent carries Content-Type
\* message/ohttp-res, a Content-Length that is the length of the serialized
\* message, and that message as its body; success is fired once under
\* marshal_request.
C12_MarshalSuccess ==
    (MarshalRun /\ debug /\ last.handleCalls = 1 /\ last.handled.err = NilError) =>
        /\ {"Content-Type", "Content-Length"} \subseteq DOMAIN last.w.sent
        /\ last.w.sent["Content-Type"] = ohttpResponseContentType
        /\ last.w.sent["Content-Length"] = ToString(Len(Marshal(last.handled.resp)))
        /\ last.w.body = <<Bytes(Marshal(last.handled.resp))>>
        /\ FiredCount(last, metricsEventMarshalRequest, metricsResultSuccess) = 1

\* goroutine t has published the key configuration and its response is not yet read
Published(t) == tasks[t].pc = "done" /\ tasks[t].x.env.configOk

\* C13: under every interleaving of concurrent configHandler requests, a
\* request for which the configuration is available is answered 200 with
\* Cache-Control "max-age=N, private", 43200 <= N < 129600, and the
\* serialized KeyConfig as its body; two publications under the same key
\* have the same body.
C13_ConfigPublished ==
    \A t \in Tasks : Published(t) =>
        LET x == tasks[t].x
        IN  /\ x.returned
            /\ x.w.status = StatusOK
            /\ x.maxAge >= 43200 /\ x.maxAge < 129600
            /\ "Cache-Control" \in DOMAIN x.w.sent
            /\ x.w.sent["Cache-Control"] = "max-age=" \o ToString(x.maxAge) \o ", private"
            /\ x.w.body = <<Bytes(ConfigMarshal(keyID))>>
            /\ \A u \in Tasks : Published(u) => tasks[u].x.w.body = x.w.body

C13_Witness ==
    /\ \A t \in Tasks : Published(t)
    /\ rng.draws = Cardinality(Tasks)
    /\ \E t, u \in Tasks :
        /\ tasks[t].x.w.sent["Cache-Control"] = "max-age=129599, private"
        /\ tasks[u].x.w.sent["Cache-Control"] = "max-age=43200, private"
        /\ tasks[t].x.w.body = tasks[u].x.w.body

ConfigRun == last.op \in {"configHandler", "configHandler_part000"} /\ last.returned

\* C14: when the key configuration cannot be produced, configHandler answers
\* 500 with the status text alone, sets no Cache-Control header, writes no
\* configuration bytes and logs the failure, whether verbose is set or not.
C14_ConfigUnavailable ==
    (ConfigRun /\ ~last.env.configOk) =>
        \A x \in {last, twin} :
            /\ x.w.status = StatusInternalServerError
            /\ x.w.body = <<TextLine("Internal Server Error")>>
            /\ "Cache-Control" \notin DOMAIN x.w.sent
            /\ "Cache-Control" \notin DOMAIN x.w.header
            /\ ~BytesWritten(x)
            /\ \E i \in 1..Len(x.log) : x.log[i] = "Config unavailable"

C14_Witness ==
    /\ last.op = "configHandler" /\ last.returned
    /\ ~last.env.configOk
    /\ ~verbose
    /\ last.log = <<"Config unavailable">>
    /\ twin.s.verbose
    /\ last.w.status = StatusInternalServerError

\* the fields of the gatewayResource
Receiver == <<verbose, debug, keyID, encapsulationHandlers, allowedOrigins>>

ContextComplete(t) == contexts[t].created /\ contexts[t].ownerDone

\* C16 as stated: every context a request has made is consumed exactly once
\* by the time the request completes, and by that request.
C16_Original ==
    \A t \in Tasks : ContextComplete(t) =>
        /\ contexts[t].consumed = 1
        /\ contexts[t].usedBy = {t}

\* C16: a context made by a successful decapsulation is consumed at most
\* once, before its request completes and by that request alone, never by
\* a concurrent one; it is consumed exactly once when the handler lookup
\* and the content handler succeed, and not at all otherwise.
C16_ContextOwned ==
    \A t \in Tasks :
        /\ contexts[t].consumed <= 1
        /\ contexts[t].usedBy \subseteq {t}
        /\ contexts[t].consumed > 0 => contexts[t].created /\ contexts[t].usedBy = {t}
        /\ ContextComplete(t) =>
                /\ tasks[t].pc = "idle"
                /\ contexts[t].consumed = 1 <=> contexts[t].handlerOk
                /\ contexts[t].status = StatusOK => contexts[t].consumed = 1

C16_Witness ==
    \E t, u \in Tasks :
        /\ ContextComplete(t) /\ contexts[t].consumed = 1 /\ contexts[t].usedBy = {t}
        /\ contexts[t].status = StatusOK
        /\ contexts[u].created /\ ~contexts[u].ownerDone /\ contexts[u].consumed = 0
        /\ tasks[u].pc = "handled"

\* the chunks that the report of "Config unavailable" with status 500 writes:
\* the debug message, or the status text when debug is off
ConfigUnavailableChunks ==
    {TextLine("Config unavailable"), Text("Config unavailable"),
     TextLine(StatusText(StatusInternalServerError))}

\* C17: no run of marshalHandler performs the "Config unavailable" write
\* with status 500: nothing of it reaches the response.
C17_ConfigUnavailableUnreachable ==
    MarshalRun =>
        /\ last.w.status # StatusInternalServerError
        /\ \A i \in 1..Len(last.w.body) : last.w.body[i] \notin ConfigUnavailableChunks

\* the content handler of part_000 was called and asked s.checkAllowList
FilterAsked == Part000Run /\ last.handleCalls = 1 /\ last.handled.called

\* C18: checkAllowList permits every origin when allowedOrigins is nil;
\* otherwise it permits an origin exactly when the origin is a key of the
\* list, so a list that is configured but empty permits none. A request
\* whose target origin is not permitted is answered 403.
C18_AllowList ==
    /\ \A o \in Origins \cup {""} :
        /\ allowedOrigins.nil => checkAllowList(Self, o)
        /\ ~allowedOrigins.nil => (checkAllowList(Self, o) <=> o \in allowedOrigins.keys)
        /\ (~allowedOrigins.nil /\ allowedOrigins.keys = {}) => ~checkAllowList(Self, o)
    /\ FilterAsked =>
        (last.w.status = StatusForbidden
            <=> (~allowedOrigins.nil /\ last.env.origin \notin allowedOrigins.keys))

C18_Witness ==
    /\ FilterAsked
    /\ ~allowedOrigins.nil /\ allowedOrigins.keys = {}
    /\ last.handled.err = TargetForbiddenError
    /\ last.w.status = StatusForbidden

\* C19: every run of gatewayHandler returns having written the status
\* exactly once, one of 200, 400, 401 and 403, and having called Handle at
\* most once; no second status is written and no success body follows an
\* error status.
C19_OneStatus ==
    last.op = "gatewayHandler" =>
        /\ last.returned
        /\ last.w.wroteHeader
        /\ last.w.superfluous = 0
        /\ last.w.status \in {200, 400, 401, 403}
        /\ last.handleCalls <= 1
        /\ Len(last.handleArg) = last.handleCalls
        /\ last.w.status # 200 => (~BytesWritten(last) /\ last.marshalCalls = 0)
        /\ last.w.status = 200 => last.w.body = <<Bytes(Marshal(last.handled.resp))>>

C19_Witness ==
    /\ GatewayRun
    /\ debug
    /\ last.handleCalls = 1
    /\ last.handled.err = ConfigMismatchError
    /\ last.w.status = StatusUnauthorized
    /\ last.w.superfluous = 0
    /\ Len(last.w.body) = 1

\* C20: before the dispatch gatewayHandler fires at most one metric: exactly
\* one for a failed method check, Content-Type check, body read or parse,
\* none when no handler is registered for the path, and after such a
\* failure nothing more; a request that reaches the dispatch has fired
\* nothing before it.
C20_PreDispatchMetrics ==
    GatewayRun =>
        LET k == FirstFailing(last.r)
            expected == IF k = 3 THEN 0 ELSE 1
        IN  IF k < Len(CheckOrder)
            THEN /\ Len(last.fired) = expected
                 /\ \A i \in 1..Len(last.fired) :
                        /\ last.fired[i].category = metricsEventGatewayRequest
                        /\ last.fired[i].result \in
                                {metricsResultInvalidMethod, metricsResultInvalidContentType,
                                 metricsResultInvalidContent}
                 /\ last.handleCalls = 0
            ELSE /\ last.handleCalls = 1
                 /\ last.fired = <<GatewayMetric(last.handled.metric)>>

C20_Witness ==
    /\ GatewayRun
    /\ MethodOk(last.r) /\ ContentTypeOk(last.r) /\ ~PathRegistered(last.r)
    /\ last.r.Body.err
    /\ last.fired = <<>>
    /\ last.w.status = StatusBadRequest

====
